---- MODULE Spec2Model ----
(***************************************************************************)
(* Gist Data Manager (streamlit_app.py): one remote JSON document (the     *)
(* gist file), and per browser session the st.session_state dictionary.    *)
(* Every action below is one user interaction: the script run that handles *)
(* it and, where the handler ends in st.rerun(), the run that follows.     *)
(***************************************************************************)
EXTENDS Integers, Sequences, FiniteSets, TLC

\* ------------------------------------------------------------------ bounds
MaxRecords == 2   \* the add form is used while the working copy is shorter
MaxClock == 2     \* readings of datetime.utcnow() over the whole behaviour
MaxUuid == 1      \* uuid.uuid4() values drawn over the whole behaviour

\* --------------------------------------------------------------- sessions
SessionIds == {"A", "B"}   \* browser sessions, each with its own session_state
SoloSessions == {"A"}      \* the session acting in the one-operator specification

\* ------------------------------------------------------------ Python values
None == "<None>"                 \* Python None where a string is expected
APP_PASSWORD == "s3cret"         \* os.getenv("APP_PASSWORD"), non-empty

\* JSON / Python scalars, tagged by their Python type
JStr(s) == [k |-> "str", n |-> 0, s |-> s]
JInt(i) == [k |-> "int", n |-> i, s |-> ""]
JFloat(x) == [k |-> "float", n |-> x, s |-> ""]
JNull == [k |-> "null", n |-> 0, s |-> ""]

\* the texts float() parses, with their values
NumericText == ("100" :> 100) @@ ("7" :> 7)

\* float(v): ValueError / TypeError are reported as the record's fallback
CanFloat(v) ==
    \/ v.k \in {"int", "float"}
    \/ v.k = "str" /\ v.s \in DOMAIN NumericText

ToFloat(v) ==
    IF v.k \in {"int", "float"} THEN JFloat(v.n) ELSE JFloat(NumericText[v.s])

\* the try/except around float(item['money'])
CoerceMoney(v) == IF CanFloat(v) THEN ToFloat(v) ELSE JFloat(0)

\* str(v)
PyStr(v) ==
    CASE v.k = "str" -> v.s
      [] v.k = "int" -> ToString(v.n)
      [] v.k = "float" -> ToString(v.n) \o ".0"
      [] OTHER -> "None"

\* datetime.utcnow().isoformat() + "Z" for the clock reading t
Iso(t) == "2024-01-01T00:00:0" \o ToString(t) \o "Z"

\* str(uuid.uuid4()) for the i-th value drawn
Uuid4(i) == "uuid-" \o ToString(i)

\* str.lower() on a string held as a sequence of characters
LowerChar(c) ==
    CASE c = "A" -> "a"
      [] c = "B" -> "b"
      [] c = "L" -> "l"
      [] OTHER -> c

Lower(str) == [i \in 1..Len(str) |-> LowerChar(str[i])]

\* the Python test `sub in str`
Contains(sub, str) ==
    \E i \in 0..(Len(str) - Len(sub)) : SubSeq(str, i + 1, i + Len(sub)) = sub

\* ------------------------------------------------------------------- dicts
Has(item, key) == key \in DOMAIN item

Pop(item, key) == [f \in (DOMAIN item) \ {key} |-> item[f]]

Update(item, new) ==
    [f \in (DOMAIN item) \cup (DOMAIN new) |->
        IF f \in DOMAIN new THEN new[f] ELSE item[f]]

\* user.get('_app_id'), None when the key is missing
AppId(item) == IF Has(item, "_app_id") THEN item["_app_id"] ELSE None

\* truthiness of an identifier (None and "" are falsy)
Truthy(id) == id # None /\ id # ""

\* user.get("username") and term.lower() in user["username"].lower()
Matches(user, term) ==
    /\ Has(user, "username")
    /\ user["username"] # <<>>
    /\ Contains(Lower(term), Lower(user["username"]))

\* the list comprehension that filters the working copy by the search term
FilterUsers(original, term) == SelectSeq(original, LAMBDA u : Matches(u, term))

\* the re-filter after an edit or a delete
Refilter(original, term) ==
    IF term # <<>> THEN FilterUsers(original, term) ELSE original

\* ------------------------------------------------------- record normalizer
RECURSIVE ensure_unique_id(_, _)
ensure_unique_id(item_list, drawn) ==
    IF item_list = <<>> THEN [items |-> <<>>, drawn |-> drawn]
    ELSE LET item == Head(item_list)
             fresh == ~Has(item, "_app_id") /\ ~Has(item, "createdAt")
             tagged ==
                 IF Has(item, "_app_id") THEN item
                 ELSE IF Has(item, "createdAt")
                      THEN Update(item, "_app_id" :> PyStr(item["createdAt"]))
                      ELSE Update(item, "_app_id" :> Uuid4(drawn + 1))
             rest == ensure_unique_id(Tail(item_list),
                                      IF fresh THEN drawn + 1 ELSE drawn)
         IN [items |-> <<tagged>> \o rest.items, drawn |-> rest.drawn]

\* the loop that makes every 'money' a float
CoerceAll(items) ==
    [i \in 1..Len(items) |->
        IF Has(items[i], "money")
        THEN Update(items[i], "money" :> CoerceMoney(items[i]["money"]))
        ELSE items[i]]

\* ------------------------------------------------------ remote store client
\* The gist file: kind "list" (content is a JSON array), "absent" (no such
\* file, or empty content), "corrupt" (not JSON), "object" (JSON, not an array).
GistList(content) == [kind |-> "list", content |-> content]
GistOther(kind) == [kind |-> kind, content |-> <<>>]

\* fetch_gist_data(): isNone is the `return None` of a RequestException; a
\* JSON value that is no list is returned as it is and the caller's
\* `data if isinstance(data, list) else []` makes it the empty list.
fetch_gist_data(gistFile, transportOk, drawn) ==
    IF ~transportOk
    THEN [isNone |-> TRUE, data |-> <<>>, drawn |-> drawn, msgs |-> {"fetch_error"}]
    ELSE IF gistFile.kind = "absent"
    THEN [isNone |-> FALSE, data |-> <<>>, drawn |-> drawn, msgs |-> {"file_absent_warning"}]
    ELSE IF gistFile.kind = "corrupt"
    THEN [isNone |-> FALSE, data |-> <<>>, drawn |-> drawn, msgs |-> {"json_decode_error"}]
    ELSE IF gistFile.kind = "object"
    THEN [isNone |-> FALSE, data |-> <<>>, drawn |-> drawn, msgs |-> {}]
    ELSE LET ided == ensure_unique_id(gistFile.content, drawn)
         IN [isNone |-> FALSE, data |-> CoerceAll(ided.items),
             drawn |-> ided.drawn, msgs |-> {}]

\* faulty variant: the PATCH adds the records to the file's content instead of replacing it
update_gist_data_merge(data_to_save, gistFile, transportOk) ==
    IF transportOk
    THEN [saved |-> TRUE,
          gist |-> GistList(gistFile.content \o CoerceAll(data_to_save)),
          msgs |-> {"gist_saved"}]
    ELSE [saved |-> FALSE, gist |-> gistFile, msgs |-> {"gist_update_error"}]

\* update_gist_data(data_to_save): the PATCH replaces the file's content by
\* json.dumps of the list, or fails and leaves the file as it is.
update_gist_data(data_to_save, gistFile, transportOk) ==
    IF transportOk
    THEN [saved |-> TRUE, gist |-> GistList(CoerceAll(data_to_save)),
          msgs |-> {"gist_saved"}]
    ELSE [saved |-> FALSE, gist |-> gistFile, msgs |-> {"gist_update_error"}]

\* faulty variant: any non-empty password is accepted
check_password_nonempty(entered_password) == entered_password # ""

\* check_password(entered_password)
check_password(entered_password) == entered_password = APP_PASSWORD

\* ------------------------------------------------------------ session state
\* default_session_state; filtered_is_original records that gist_data_filtered
\* is the very list object gist_data_original (the assignment
\* `gist_data_filtered = gist_data_original` aliases, a comprehension does not).
default_session_state ==
    [logged_in |-> FALSE,
     gist_data_original |-> <<>>,
     gist_data_filtered |-> <<>>,
     filtered_is_original |-> FALSE,
     editing_user_app_id |-> None,
     search_term |-> <<>>,
     password_attempt |-> "",
     initial_load_attempted |-> FALSE,
     pending_delete_app_id |-> None]

\* next(user for user in gist_data_original if user.get('_app_id') == id) exists
InOriginal(ss, id) ==
    \E i \in 1..Len(ss.gist_data_original) : AppId(ss.gist_data_original[i]) = id

\* the app ids the view tab draws edit and delete buttons for
ShownIds(ss) ==
    {AppId(ss.gist_data_filtered[i]) : i \in 1..Len(ss.gist_data_filtered)}
        \ {None, ""}

\* the view tab with no button pressed and no box ticked: a pending delete
\* whose record is gone is dropped, when the filtered view is not empty
view_tab(ss) ==
    IF /\ ss.gist_data_filtered # <<>>
       /\ Truthy(ss.pending_delete_app_id)
       /\ ~InOriginal(ss, ss.pending_delete_app_id)
    THEN [ss |-> [ss EXCEPT !.pending_delete_app_id = None], msgs |-> {}]
    ELSE [ss |-> ss, msgs |-> {}]

\* the edit tab with no form submitted: an edit selection whose record is gone
\* is warned about and dropped
edit_tab(ss) ==
    IF /\ ss.editing_user_app_id # None
       /\ ~InOriginal(ss, ss.editing_user_app_id)
    THEN [ss |-> [ss EXCEPT !.editing_user_app_id = None],
          msgs |-> {"edit_user_not_found"}]
    ELSE [ss |-> ss, msgs |-> {}]

\* main_app() run with no widget fired: what st.rerun() leads to, and what the
\* rest of the script does after a handler that does not rerun
main_app(ss) ==
    LET v == view_tab(ss)
        e == edit_tab(v.ss)
    IN [ss |-> e.ss, msgs |-> v.msgs \cup e.msgs]

\* ---------------------------------------------------------------- handlers
\* the login form
login(ss, password_input) ==
    IF check_password(password_input)
    THEN [ss |-> [ss EXCEPT !.logged_in = TRUE, !.password_attempt = ""],
          msgs |-> {}, out |-> "ok"]
    ELSE [ss |-> [ss EXCEPT !.password_attempt = password_input],
          msgs |-> {"incorrect_password"}, out |-> "rejected"]

\* the first run after login: a failed fetch keeps what the session holds
initial_load(ss, fetched) ==
    LET kept == IF fetched.isNone THEN ss
                ELSE [ss EXCEPT !.gist_data_original = fetched.data,
                                !.gist_data_filtered = fetched.data,
                                !.filtered_is_original = TRUE]
    IN [kept EXCEPT !.initial_load_attempted = TRUE]

\* the "Load Data from Gist" button
load_data_btn(ss, fetched) ==
    LET got == IF fetched.isNone
               THEN [ss EXCEPT !.gist_data_original = <<>>,
                               !.gist_data_filtered = <<>>,
                               !.filtered_is_original = FALSE]
               ELSE [ss EXCEPT !.gist_data_original = fetched.data,
                               !.gist_data_filtered = fetched.data,
                               !.filtered_is_original = TRUE]
    IN [got EXCEPT !.search_term = <<>>, !.editing_user_app_id = None]

\* faulty variant: the copy keeps '_app_id'
data_to_save_with_ids(original) == original

\* [dict(item) for item in gist_data_original] with '_app_id' popped from each
data_to_save_copy(original) ==
    [i \in 1..Len(original) |-> Pop(original[i], "_app_id")]

\* faulty variant: the save runs without the confirmation checkbox
save_data_btn_unconfirmed(ss, gistFile, confirm, transportOk) ==
    IF ss.gist_data_original = <<>>
    THEN [ss |-> ss, gist |-> gistFile, msgs |-> {"no_data_to_save"}, out |-> "empty"]
    ELSE LET r == update_gist_data([i \in 1..Len(ss.gist_data_original) |-> Pop(ss.gist_data_original[i], "_app_id")],
                                   gistFile, transportOk)
         IN [ss |-> [ss EXCEPT !.search_term = <<>>, !.editing_user_app_id = None],
             gist |-> r.gist,
             msgs |-> r.msgs \cup (IF r.saved THEN {"data_saved"} ELSE {"failed_to_save"}),
             out |-> IF r.saved THEN "saved" ELSE "save_failed"]

\* faulty variant: a failed save empties the working copy, as the failed Load does
save_data_btn_drops_on_failure(ss, gistFile, confirm, transportOk) ==
    IF ss.gist_data_original = <<>>
    THEN [ss |-> ss, gist |-> gistFile, msgs |-> {"no_data_to_save"}, out |-> "empty"]
    ELSE IF ~confirm
    THEN [ss |-> ss, gist |-> gistFile, msgs |-> {}, out |-> "unconfirmed"]
    ELSE LET r == update_gist_data([i \in 1..Len(ss.gist_data_original) |-> Pop(ss.gist_data_original[i], "_app_id")],
                                   gistFile, transportOk)
         IN [ss |-> [ss EXCEPT !.search_term = <<>>, !.editing_user_app_id = None,
                               !.gist_data_original = IF r.saved THEN @ ELSE <<>>,
                               !.gist_data_filtered = IF r.saved THEN @ ELSE <<>>],
             gist |-> r.gist,
             msgs |-> r.msgs \cup (IF r.saved THEN {"data_saved"} ELSE {"failed_to_save"}),
             out |-> IF r.saved THEN "saved" ELSE "save_failed"]

\* faulty variant: the save is refused when the file holds a record the working copy lacks
save_data_btn_checks_remote(ss, gistFile, confirm, transportOk) ==
    IF ss.gist_data_original = <<>>
    THEN [ss |-> ss, gist |-> gistFile, msgs |-> {"no_data_to_save"}, out |-> "empty"]
    ELSE IF ~confirm
    THEN [ss |-> ss, gist |-> gistFile, msgs |-> {}, out |-> "unconfirmed"]
    ELSE LET payload == [i \in 1..Len(ss.gist_data_original) |-> Pop(ss.gist_data_original[i], "_app_id")]
             conflict == \E j \in 1..Len(gistFile.content) :
                             \A i \in 1..Len(payload) : payload[i] # gistFile.content[j]
             r == update_gist_data(payload, gistFile, transportOk /\ ~conflict)
         IN [ss |-> [ss EXCEPT !.search_term = <<>>, !.editing_user_app_id = None],
             gist |-> r.gist,
             msgs |-> r.msgs \cup (IF r.saved THEN {"data_saved"} ELSE {"failed_to_save"}),
             out |-> IF r.saved THEN "saved" ELSE "save_failed"]

\* the "Save Changes to Gist" button and its confirmation checkbox
save_data_btn(ss, gistFile, confirm, transportOk) ==
    IF ss.gist_data_original = <<>>
    THEN [ss |-> ss, gist |-> gistFile, msgs |-> {"no_data_to_save"}, out |-> "empty"]
    ELSE IF ~confirm
    THEN [ss |-> ss, gist |-> gistFile, msgs |-> {}, out |-> "unconfirmed"]
    ELSE LET r == update_gist_data(data_to_save_copy(ss.gist_data_original),
                                   gistFile, transportOk)
         IN [ss |-> [ss EXCEPT !.search_term = <<>>, !.editing_user_app_id = None],
             gist |-> r.gist,
             msgs |-> r.msgs \cup (IF r.saved THEN {"data_saved"} ELSE {"failed_to_save"}),
             out |-> IF r.saved THEN "saved" ELSE "save_failed"]

\* the search box, when its text differs from the stored term
search_input(ss, term) ==
    [ss EXCEPT !.search_term = term,
               !.gist_data_filtered = Refilter(ss.gist_data_original, term),
               !.filtered_is_original = (term = <<>>),
               !.editing_user_app_id = None]

\* the Logout button
logout_btn(ss) ==
    [ss EXCEPT !.logged_in = FALSE,
               !.password_attempt = "",
               !.gist_data_original = <<>>,
               !.gist_data_filtered = <<>>,
               !.filtered_is_original = FALSE,
               !.editing_user_app_id = None,
               !.search_term = <<>>,
               !.initial_load_attempted = FALSE]

\* the edit button of a shown record
edit_btn(ss, app_id) == [ss EXCEPT !.editing_user_app_id = app_id]

\* faulty variant: the delete button removes the record at once
delete_btn_at_once(ss, app_id) ==
    LET kept == SelectSeq(ss.gist_data_original, LAMBDA u : AppId(u) # app_id)
    IN [ss EXCEPT !.gist_data_original = kept,
                  !.gist_data_filtered = Refilter(kept, ss.search_term)]

\* the delete button of a shown record
delete_btn(ss, app_id) == [ss EXCEPT !.pending_delete_app_id = app_id]

\* the "Confirm delete user" checkbox, ticked
confirm_delete_cb(ss) ==
    LET kept == SelectSeq(ss.gist_data_original,
                          LAMBDA u : AppId(u) # ss.pending_delete_app_id)
    IN [ss EXCEPT !.gist_data_original = kept,
                  !.gist_data_filtered = Refilter(kept, ss.search_term),
                  !.filtered_is_original = (ss.search_term = <<>>),
                  !.pending_delete_app_id = None]

\* the "Cancel Delete" button
cancel_delete_btn(ss) == [ss EXCEPT !.pending_delete_app_id = None]

\* the record the add form builds at clock reading t
new_user(username, password, money, t) ==
    [username |-> username, password |-> password, money |-> JFloat(money),
     createdAt |-> JStr(Iso(t)), lastLogin |-> JStr(Iso(t))]
        @@ ("_app_id" :> PyStr(JStr(Iso(t))))

\* faulty variant: the new record is appended to the filtered view under any search term
append_new_user_shown(ss, user) ==
    LET orig1 == Append(ss.gist_data_original, user)
    IN [ss EXCEPT !.gist_data_original = orig1,
                  !.gist_data_filtered =
                      IF ss.search_term = <<>> THEN orig1
                      ELSE Append(ss.gist_data_filtered, user),
                  !.filtered_is_original = (ss.search_term = <<>>)]

\* lines 260-264: append to the working copy, then to the filtered view
append_new_user(ss, user) ==
    LET orig1 == Append(ss.gist_data_original, user)
        filt1 == IF ss.filtered_is_original THEN orig1 ELSE ss.gist_data_filtered
        hit == /\ ss.search_term # <<>>
               /\ Contains(Lower(ss.search_term), Lower(user.username))
        filt2 == IF hit THEN Append(filt1, user)
                 ELSE IF ss.search_term = <<>> THEN orig1 ELSE filt1
    IN [ss EXCEPT !.gist_data_original =
                      IF hit /\ ss.filtered_is_original THEN filt2 ELSE orig1,
                  !.gist_data_filtered = filt2,
                  !.filtered_is_original =
                      IF hit THEN ss.filtered_is_original
                      ELSE IF ss.search_term = <<>> THEN TRUE
                      ELSE ss.filtered_is_original]

\* faulty variant: the add form requires the username only
add_user_form_username_only(ss, username, password, money, t) ==
    IF username = <<>>
    THEN [ss |-> ss, msgs |-> {"username_password_empty"}, out |-> "rejected"]
    ELSE [ss |-> append_new_user(ss, new_user(username, password, money, t)),
          msgs |-> {"user_added"}, out |-> "added"]

\* the add form, submitted
add_user_form(ss, username, password, money, t) ==
    IF username = <<>> \/ password = ""
    THEN [ss |-> ss, msgs |-> {"username_password_empty"}, out |-> "rejected"]
    ELSE [ss |-> append_new_user(ss, new_user(username, password, money, t)),
          msgs |-> {"user_added"}, out |-> "added"]

\* the for/enumerate/break search: the first index whose id matches, else -1
original_idx_to_update(original, app_id) ==
    IF \E i \in 1..Len(original) : AppId(original[i]) = app_id
    THEN CHOOSE i \in 1..Len(original) :
            /\ AppId(original[i]) = app_id
            /\ \A j \in 1..(i - 1) : AppId(original[j]) # app_id
    ELSE -1

\* the edit form, "Save Changes to User" submitted
save_edit_button(ss, edit_username, edit_password, edit_money, t) ==
    LET idx == original_idx_to_update(ss.gist_data_original, ss.editing_user_app_id)
    IN IF edit_username = <<>>
       THEN [ss |-> ss, msgs |-> {"username_empty"}, out |-> "rejected"]
       ELSE IF idx = -1
       THEN [ss |-> ss, msgs |-> {"could_not_find_user"}, out |-> "not_found"]
       ELSE LET updated ==
                    [ss.gist_data_original EXCEPT ![idx] =
                        Update(@, [username |-> edit_username,
                                   password |-> edit_password,
                                   money |-> JFloat(edit_money),
                                   lastLogin |-> JStr(Iso(t))])]
            IN [ss |-> [ss EXCEPT !.gist_data_original = updated,
                                  !.gist_data_filtered = Refilter(updated, ss.search_term),
                                  !.filtered_is_original = (ss.search_term = <<>>),
                                  !.editing_user_app_id = None],
                msgs |-> {"user_updated"}, out |-> "updated"]

\* the edit form, "Cancel Edit" submitted
cancel_edit_button(ss) == [ss EXCEPT !.editing_user_app_id = None]

\* ------------------------------------------------------------------ inputs
\* what the remote file may hold when the first session starts
OldStamp == "2023-12-31T23:59:59Z"

RawAlice == [username |-> <<"a", "l">>, password |-> "p1", money |-> JStr("100")]

RawAl ==
    [username |-> <<"A", "L">>, password |-> "p1", money |-> JInt(7),
     createdAt |-> JStr(OldStamp), lastLogin |-> JStr(OldStamp)]

RawBob ==
    [username |-> <<"b">>, password |-> "p2", money |-> JStr("abc"),
     createdAt |-> JStr(OldStamp), lastLogin |-> JStr(OldStamp)]

InitialGists ==
    {GistList(<<RawAlice>>), GistList(<<RawAl, RawBob>>),
     GistOther("absent"), GistOther("corrupt"), GistOther("object")}

PasswordInputs == {APP_PASSWORD, "guess"}
UsernameInputs == {<<>>, <<"a", "l">>, <<"B">>}
UserPasswordInputs == {"", "pw"}
MoneyInputs == {500}
EditUsernameInputs == {<<>>, <<"B">>}
EditPasswordInputs == {"pw2"}
EditMoneyInputs == {750}
SearchTerms == {<<>>, <<"A">>}

\* ------------------------------------------------------------------- state
VARIABLES
    session_state,   \* st.session_state of each browser session
    gist,            \* the remote file GIST_FILENAME of the gist
    clock,           \* the last reading of datetime.utcnow()
    uuid_drawn,      \* how many uuid.uuid4() values were drawn
    report           \* the st.error / st.warning / st.success calls of the last action

vars == <<session_state, gist, clock, uuid_drawn, report>>

Init ==
    /\ session_state = [s \in SessionIds |-> default_session_state]
    /\ gist \in InitialGists
    /\ clock = 0
    /\ uuid_drawn = 0
    /\ report = {}

\* the script reaches main_app() with its widgets
InMainApp(s) ==
    /\ session_state[s].logged_in
    /\ session_state[s].initial_load_attempted

\* the end of an action of session s
Step(s, ss, msgs) ==
    /\ session_state' = [session_state EXCEPT ![s] = ss]
    /\ report' = msgs

\* datetime.utcnow(): a handler that reads the clock gets the next reading
utcnow == clock + 1

\* ----------------------------------------------------------------- actions
Login(s, password_input) ==
    /\ ~session_state[s].logged_in
    /\ LET r == login(session_state[s], password_input)
       IN Step(s, r.ss, r.msgs)
    /\ UNCHANGED <<gist, clock, uuid_drawn>>

InitialLoad(s, transportOk) ==
    /\ session_state[s].logged_in
    /\ ~session_state[s].initial_load_attempted
    /\ LET fetched == fetch_gist_data(gist, transportOk, uuid_drawn)
           shown == main_app(initial_load(session_state[s], fetched))
       IN /\ fetched.drawn <= MaxUuid
          /\ uuid_drawn' = fetched.drawn
          /\ Step(s, shown.ss, fetched.msgs \cup shown.msgs)
    /\ UNCHANGED <<gist, clock>>

Load(s, transportOk) ==
    /\ InMainApp(s)
    /\ LET fetched == fetch_gist_data(gist, transportOk, uuid_drawn)
           shown == main_app(load_data_btn(session_state[s], fetched))
       IN /\ fetched.drawn <= MaxUuid
          /\ uuid_drawn' = fetched.drawn
          /\ Step(s, shown.ss, fetched.msgs \cup shown.msgs)
    /\ UNCHANGED <<gist, clock>>

SaveAll(s, confirm, transportOk) ==
    /\ InMainApp(s)
    /\ LET r == save_data_btn(session_state[s], gist, confirm, transportOk)
           shown == main_app(r.ss)
       IN /\ gist' = r.gist
          /\ Step(s, shown.ss, r.msgs \cup shown.msgs)
    /\ UNCHANGED <<clock, uuid_drawn>>

Search(s, term) ==
    /\ InMainApp(s)
    /\ term # session_state[s].search_term
    /\ LET shown == main_app(search_input(session_state[s], term))
       IN Step(s, shown.ss, shown.msgs)
    /\ UNCHANGED <<gist, clock, uuid_drawn>>

Logout(s) ==
    /\ InMainApp(s)
    /\ Step(s, logout_btn(session_state[s]), {})
    /\ UNCHANGED <<gist, clock, uuid_drawn>>

SelectForEdit(s, app_id) ==
    /\ InMainApp(s)
    /\ app_id \in ShownIds(session_state[s])
    /\ LET shown == main_app(edit_btn(session_state[s], app_id))
       IN Step(s, shown.ss, shown.msgs)
    /\ UNCHANGED <<gist, clock, uuid_drawn>>

RequestDelete(s, app_id) ==
    /\ InMainApp(s)
    /\ app_id \in ShownIds(session_state[s])
    /\ LET shown == main_app(delete_btn(session_state[s], app_id))
       IN Step(s, shown.ss, shown.msgs)
    /\ UNCHANGED <<gist, clock, uuid_drawn>>

\* the confirmation dialog is drawn: the view is not empty and the record exists
DeleteDialogShown(s) ==
    /\ InMainApp(s)
    /\ session_state[s].gist_data_filtered # <<>>
    /\ Truthy(session_state[s].pending_delete_app_id)
    /\ InOriginal(session_state[s], session_state[s].pending_delete_app_id)

ConfirmDelete(s) ==
    /\ DeleteDialogShown(s)
    /\ LET shown == main_app(confirm_delete_cb(session_state[s]))
       IN Step(s, shown.ss, {"user_removed"} \cup shown.msgs)
    /\ UNCHANGED <<gist, clock, uuid_drawn>>

CancelDelete(s) ==
    /\ DeleteDialogShown(s)
    /\ LET shown == main_app(cancel_delete_btn(session_state[s]))
       IN Step(s, shown.ss, shown.msgs)
    /\ UNCHANGED <<gist, clock, uuid_drawn>>

AddRecord(s, username, password, money) ==
    /\ InMainApp(s)
    /\ Len(session_state[s].gist_data_original) < MaxRecords
    /\ LET r == add_user_form(session_state[s], username, password, money, utcnow)
           shown == main_app(r.ss)
       IN /\ r.out = "added" => clock < MaxClock
          /\ clock' = IF r.out = "added" THEN utcnow ELSE clock
          /\ Step(s, shown.ss, r.msgs \cup shown.msgs)
    /\ UNCHANGED <<gist, uuid_drawn>>

\* the edit form is drawn: a record is selected and it exists
EditFormShown(s) ==
    /\ InMainApp(s)
    /\ session_state[s].editing_user_app_id # None
    /\ InOriginal(session_state[s], session_state[s].editing_user_app_id)

SaveEdit(s, edit_username, edit_password, edit_money) ==
    /\ EditFormShown(s)
    /\ LET r == save_edit_button(session_state[s], edit_username, edit_password,
                                 edit_money, utcnow)
           shown == main_app(r.ss)
       IN /\ r.out = "updated" => clock < MaxClock
          /\ clock' = IF r.out = "updated" THEN utcnow ELSE clock
          /\ Step(s, shown.ss, r.msgs \cup shown.msgs)
    /\ UNCHANGED <<gist, uuid_drawn>>

CancelEdit(s) ==
    /\ EditFormShown(s)
    /\ LET shown == main_app(cancel_edit_button(session_state[s]))
       IN Step(s, shown.ss, shown.msgs)
    /\ UNCHANGED <<gist, clock, uuid_drawn>>

\* one interaction of session s
SessionNext(s) ==
    \/ \E pw \in PasswordInputs : Login(s, pw)
    \/ \E ok \in BOOLEAN : InitialLoad(s, ok)
    \/ \E ok \in BOOLEAN : Load(s, ok)
    \/ \E confirm \in BOOLEAN, ok \in BOOLEAN : SaveAll(s, confirm, ok)
    \/ \E term \in SearchTerms : Search(s, term)
    \/ Logout(s)
    \/ \E id \in ShownIds(session_state[s]) : SelectForEdit(s, id)
    \/ \E id \in ShownIds(session_state[s]) : RequestDelete(s, id)
    \/ ConfirmDelete(s)
    \/ CancelDelete(s)
    \/ \E u \in UsernameInputs, p \in UserPasswordInputs, m \in MoneyInputs :
           AddRecord(s, u, p, m)
    \/ \E u \in EditUsernameInputs, p \in EditPasswordInputs, m \in EditMoneyInputs :
           SaveEdit(s, u, p, m)
    \/ CancelEdit(s)

Next == \E s \in SoloSessions : SessionNext(s)

Spec == Init /\ [][Next]_vars

\* ------------------------------------- loading and saving raw collections
\* records a gist file may hold that the application did not write
RawNoMoney ==
    [username |-> <<"b">>, password |-> "p2", createdAt |-> JStr(OldStamp)]

RawBlankStamp ==
    [username |-> <<"B">>, password |-> "p3", money |-> JNull, createdAt |-> JStr("")]

RawNullStamp ==
    [username |-> <<"a">>, password |-> "p4", money |-> JFloat(3), createdAt |-> JNull]

RawIntStamp ==
    [username |-> <<"l">>, password |-> "p5", money |-> JStr("7"), createdAt |-> JInt(1700000000)]

RawKeptId ==
    [username |-> <<"A">>, password |-> "p6", money |-> JStr("100"),
     createdAt |-> JStr(OldStamp)] @@ ("_app_id" :> "kept-1")

RawRecords ==
    {RawAlice, RawAl, RawBob, RawNoMoney, RawBlankStamp, RawNullStamp,
     RawIntStamp, RawKeptId}

MaxRaw == 2   \* records of a raw collection

\* the raw collections: every list of 1..MaxRaw raw records
RawGists ==
    {GistList(c) : c \in UNION {[1..n -> RawRecords] : n \in 1..MaxRaw}}

NormalizeInit ==
    /\ session_state = [s \in SessionIds |-> default_session_state]
    /\ gist \in RawGists
    /\ clock = 0
    /\ uuid_drawn = 0
    /\ report = {}

\* one operator who logs in, loads, saves and logs out
NormalizeNext ==
    \E s \in SoloSessions :
        \/ \E pw \in PasswordInputs : Login(s, pw)
        \/ \E ok \in BOOLEAN : InitialLoad(s, ok)
        \/ \E ok \in BOOLEAN : Load(s, ok)
        \/ \E confirm \in BOOLEAN, ok \in BOOLEAN : SaveAll(s, confirm, ok)
        \/ Logout(s)

NormalizeSpec == NormalizeInit /\ [][NormalizeNext]_vars

\* ------------------------------------------------- two concurrent sessions
\* what the remote file holds when two operators start
SharedGists == {GistList(<<RawAl>>), GistOther("absent")}

SharedInit ==
    /\ session_state = [s \in SessionIds |-> default_session_state]
    /\ gist \in SharedGists
    /\ clock = 0
    /\ uuid_drawn = 0
    /\ report = {}

\* two operators, each in a browser session of their own, who log in, load,
\* add and delete records and save
SharedNext ==
    \E s \in SessionIds :
        \/ Login(s, APP_PASSWORD)
        \/ InitialLoad(s, TRUE)
        \/ Load(s, TRUE)
        \/ \E u \in UsernameInputs \ {<<>>} : AddRecord(s, u, "pw", 500)
        \/ \E id \in ShownIds(session_state[s]) : RequestDelete(s, id)
        \/ ConfirmDelete(s)
        \/ \E ok \in BOOLEAN : SaveAll(s, TRUE, ok)

SharedSpec == SharedInit /\ [][SharedNext]_vars

\* ------------------------------------------- a session whose fetches fail
\* the remote file holds records and every fetch fails in transport
FailedFetchInit ==
    /\ session_state = [s \in SessionIds |-> default_session_state]
    /\ gist \in {g \in InitialGists : g.kind = "list" /\ g.content # <<>>}
    /\ clock = 0
    /\ uuid_drawn = 0
    /\ report = {}

\* one operator who logs in, whose loads fail, and who adds records and saves
FailedFetchNext ==
    \E s \in SoloSessions :
        \/ \E pw \in PasswordInputs : Login(s, pw)
        \/ InitialLoad(s, FALSE)
        \/ Load(s, FALSE)
        \/ \E u \in UsernameInputs, p \in UserPasswordInputs, m \in MoneyInputs :
               AddRecord(s, u, p, m)
        \/ \E confirm \in BOOLEAN, ok \in BOOLEAN : SaveAll(s, confirm, ok)
        \/ Logout(s)

FailedFetchSpec == FailedFetchInit /\ [][FailedFetchNext]_vars

\* ------------------------------------------------------------- the claims
Original(s) == session_state[s].gist_data_original
Filtered(s) == session_state[s].gist_data_filtered
SearchTerm(s) == session_state[s].search_term
Editing(s) == session_state[s].editing_user_app_id
PendingDelete(s) == session_state[s].pending_delete_app_id
LoggedIn(s) == session_state[s].logged_in

\* the username of a record contains the term, letter case ignored
UsernameContains(user, term) ==
    /\ "username" \in DOMAIN user
    /\ \E i \in 1..(Len(user["username"]) - Len(term) + 1) :
           \A j \in 1..Len(term) :
               LowerChar(user["username"][i + j - 1]) = LowerChar(term[j])

\* the records of a list, each without its local identifier
WithoutAppId(records) ==
    [i \in 1..Len(records) |->
        [f \in (DOMAIN records[i]) \ {"_app_id"} |-> records[i][f]]]

\* C1: in every reachable session state the filtered view is the working copy
\* filtered by the stored search term: the whole working copy, in order, when
\* the term is empty, else exactly the records whose username contains the
\* term case-insensitively, in working-copy order.
C1_FilteredViewFollowsTerm ==
    \A s \in SessionIds :
        Filtered(s) =
            IF SearchTerm(s) = <<>> THEN Original(s)
            ELSE SelectSeq(Original(s), LAMBDA u : UsernameContains(u, SearchTerm(s)))

\* C2: a Load whose fetch fails (the automatic one after login or the manual
\* one) leaves the working copy and the filtered view exactly as they were.
C2_FailedFetchKeepsData ==
    [][\A s \in SessionIds :
          (InitialLoad(s, FALSE) \/ Load(s, FALSE)) =>
              /\ Original(s)' = Original(s)
              /\ Filtered(s)' = Filtered(s)]_vars

\* the part of C2 the code keeps: the automatic load after login, failing,
\* leaves the working copy and the filtered view as they were
C2_FailedInitialLoadKeepsData ==
    [][\A s \in SessionIds :
          InitialLoad(s, FALSE) =>
              /\ Original(s)' = Original(s)
              /\ Filtered(s)' = Filtered(s)]_vars

\* C3 as claimed: RequestDelete only records the pending-delete selection, and
\* no single action makes the working copy shorter unless a pending-delete
\* selection was set before it (the failed Load of C2 set aside).
C3_NoShrinkWithoutPending ==
    [][\A s \in SessionIds :
          /\ \A id \in ShownIds(session_state[s]) :
                 RequestDelete(s, id) =>
                     /\ Original(s)' = Original(s)
                     /\ PendingDelete(s)' = id
          /\ (Len(Original(s)') < Len(Original(s)) /\ ~Load(s, FALSE)) =>
                 Truthy(PendingDelete(s))]_vars

\* C3 amended: RequestDelete only records the pending-delete selection, and no
\* single action other than Load and Logout (which replace or clear the whole
\* working copy) makes the working copy shorter unless a pending-delete
\* selection was set before it.
C3_TwoStepDelete ==
    [][\A s \in SessionIds :
          /\ \A id \in ShownIds(session_state[s]) :
                 RequestDelete(s, id) =>
                     /\ Original(s)' = Original(s)
                     /\ PendingDelete(s)' = id
          /\ Len(Original(s)') < Len(Original(s)) =>
                 \/ Truthy(PendingDelete(s))
                 \/ Logout(s)
                 \/ \E ok \in BOOLEAN : Load(s, ok)]_vars

\* C3 witness: a delete was requested and the record is still in the working copy
C3_DeleteRequested ==
    \E s \in SessionIds :
        /\ Truthy(PendingDelete(s))
        /\ InOriginal(session_state[s], PendingDelete(s))
        /\ Len(Original(s)) = 2

\* C4: what a save writes to the remote document holds no record with the
\* local identifier _app_id, and the working copy keeps its identifiers.
C4_SaveStripsIdentifier ==
    [][\A s \in SessionIds :
          (SaveAll(s, TRUE, TRUE) /\ Original(s) # <<>>) =>
              /\ gist'.kind = "list"
              /\ Len(gist'.content) = Len(Original(s))
              /\ \A i \in 1..Len(gist'.content) : "_app_id" \notin DOMAIN gist'.content[i]
              /\ Original(s)' = Original(s)
              /\ \A i \in 1..Len(Original(s)') : "_app_id" \in DOMAIN Original(s)'[i]]_vars

\* C4 witness: a save has written the working copy, whose records carry identifiers
C4_SavedWithIdentifiers ==
    \E s \in SessionIds :
        /\ "gist_saved" \in report
        /\ Original(s) # <<>>
        /\ \A i \in 1..Len(Original(s)) : "_app_id" \in DOMAIN Original(s)[i]
        /\ gist.kind = "list"
        /\ Len(gist.content) = Len(Original(s))

\* C5: a SaveAll whose remote write fails leaves the working copy exactly as
\* it was and the remote document unchanged, reports the failure, and the
\* save can be tried again.
C5_FailedSaveKeepsData ==
    [][\A s \in SessionIds :
          (SaveAll(s, TRUE, FALSE) /\ Original(s) # <<>>) =>
              /\ Original(s)' = Original(s)
              /\ gist' = gist
              /\ {"gist_update_error", "failed_to_save"} \subseteq report'
              /\ InMainApp(s)'
              /\ Original(s)' # <<>>]_vars

\* C5 witness: a save has failed on a working copy that holds records
C5_SaveFailed ==
    \E s \in SessionIds :
        /\ "failed_to_save" \in report
        /\ Original(s) # <<>>
        /\ gist.kind = "list"
        /\ WithoutAppId(Original(s)) # gist.content

\* C6: after Logout the session is anonymous and holds no working-copy
\* records, no filtered-view records, an empty search term, no edit selection
\* and no pending-delete selection.
C6_LogoutClearsSession ==
    [][\A s \in SessionIds :
          Logout(s) =>
              /\ ~LoggedIn(s)'
              /\ Original(s)' = <<>>
              /\ Filtered(s)' = <<>>
              /\ SearchTerm(s)' = <<>>
              /\ Editing(s)' = None
              /\ PendingDelete(s)' = None]_vars

\* C7 as claimed: SaveAll writes only after its confirmation, and for every
\* working copy, one that a deletion has just left empty included, a confirmed
\* successful SaveAll leaves the remote document equal to the working copy
\* with identifiers stripped.
C7_SaveWritesEveryWorkingCopy ==
    [][\A s \in SessionIds :
          /\ \A ok \in BOOLEAN : SaveAll(s, FALSE, ok) => gist' = gist
          /\ (SaveAll(s, TRUE, TRUE) /\ (Original(s) # <<>> \/ "user_removed" \in report)) =>
                 gist' = GistList(WithoutAppId(Original(s)))]_vars

\* C7 amended: SaveAll writes only after its confirmation; for every working
\* copy that holds at least one record a confirmed successful SaveAll leaves
\* the remote document equal to the working copy with identifiers stripped,
\* whatever it held before; with an empty working copy SaveAll writes nothing.
C7_SaveWritesWorkingCopy ==
    [][\A s \in SessionIds :
          /\ \A ok \in BOOLEAN : SaveAll(s, FALSE, ok) => gist' = gist
          /\ (SaveAll(s, TRUE, TRUE) /\ Original(s) # <<>>) =>
                 gist' = GistList(WithoutAppId(Original(s)))
          /\ \A confirm \in BOOLEAN, ok \in BOOLEAN :
                 (SaveAll(s, confirm, ok) /\ Original(s) = <<>>) => gist' = gist]_vars

\* C7 witness: a save has replaced the remote content by a working copy of two
\* records that holds a local change
C7_SavedLocalChange ==
    \E s \in SessionIds :
        /\ "gist_saved" \in report
        /\ Len(Original(s)) = 2
        /\ clock >= 1
        /\ gist = GistList(WithoutAppId(Original(s)))

\* an action of session s that is no confirmed SaveAll
UnsavedAction(s) ==
    \/ \E pw \in PasswordInputs : Login(s, pw)
    \/ \E ok \in BOOLEAN : InitialLoad(s, ok) \/ Load(s, ok) \/ SaveAll(s, FALSE, ok)
    \/ \E term \in SearchTerms : Search(s, term)
    \/ Logout(s)
    \/ \E id \in ShownIds(session_state[s]) : SelectForEdit(s, id) \/ RequestDelete(s, id)
    \/ ConfirmDelete(s)
    \/ CancelDelete(s)
    \/ \E u \in UsernameInputs, p \in UserPasswordInputs, m \in MoneyInputs :
           AddRecord(s, u, p, m)
    \/ \E u \in EditUsernameInputs, p \in EditPasswordInputs, m \in EditMoneyInputs :
           SaveEdit(s, u, p, m)
    \/ CancelEdit(s)

\* C8: the remote document changes only in a confirmed SaveAll step; login,
\* Load, Search, AddRecord, SelectForEdit, SaveEdit, RequestDelete,
\* ConfirmDelete, CancelDelete, Logout and an unconfirmed SaveAll leave it as
\* it is.
C8_RemoteChangesOnlyOnSave ==
    [][/\ gist' # gist =>
             \E s \in SessionIds : SaveAll(s, TRUE, TRUE) /\ Original(s) # <<>>
       /\ \A s \in SessionIds : UnsavedAction(s) => gist' = gist]_vars

\* C8 witness: a record was added locally and the remote document does not hold it
C8_UnsavedLocalChange ==
    \E s \in SessionIds :
        /\ "user_added" \in report
        /\ gist.kind = "list"
        /\ gist.content # <<>>
        /\ WithoutAppId(Original(s)) # gist.content

\* C9: the authenticated flag becomes true only by a login whose password is
\* the configured secret, and a mismatching login leaves it false; while it is
\* false nothing is fetched, saved or changed in the records; once true it
\* stays true under every action but Logout.
C9_AuthenticationGate ==
    [][\A s \in SessionIds :
          /\ (~LoggedIn(s) /\ LoggedIn(s)') => Login(s, APP_PASSWORD)
          /\ \A pw \in PasswordInputs \ {APP_PASSWORD} : Login(s, pw) => ~LoggedIn(s)'
          /\ ~LoggedIn(s) =>
                 /\ Original(s)' = Original(s)
                 /\ Filtered(s)' = Filtered(s)
                 /\ ~(\E ok \in BOOLEAN : InitialLoad(s, ok) \/ Load(s, ok))
                 /\ ~(\E confirm \in BOOLEAN, ok \in BOOLEAN : SaveAll(s, confirm, ok))
          /\ (LoggedIn(s) /\ ~LoggedIn(s)') => Logout(s)]_vars

\* C9 witness: a login with a wrong password was refused
C9_WrongPasswordRefused ==
    \E s \in SessionIds :
        /\ ~LoggedIn(s)
        /\ session_state[s].password_attempt = "guess"
        /\ "incorrect_password" \in report

\* the edit selection and the pending-delete selection of session s, when
\* set, name records of the working copy
SelectionsNameRecords(s) ==
    /\ Editing(s) # None => InOriginal(session_state[s], Editing(s))
    /\ Truthy(PendingDelete(s)) => InOriginal(session_state[s], PendingDelete(s))

\* C10: an edit selection or a pending-delete selection that names an
\* identifier no longer in the working copy is cleared: no action (the failed
\* Load of C2 set aside) that starts with selections naming records ends, on
\* the main page, with a selection naming a record that is gone.
C10_StaleSelectionCleared ==
    [][\A s \in SessionIds :
          (SelectionsNameRecords(s) /\ InMainApp(s)' /\ ~Load(s, FALSE)) =>
              SelectionsNameRecords(s)']_vars

\* C11: Search(term) stores the term and recomputes the filtered view, leaves
\* the working copy and the remote document unchanged, and resets both the
\* edit selection and the pending-delete selection.
C11_SearchResetsSelections ==
    [][\A s \in SessionIds : \A term \in SearchTerms :
          Search(s, term) =>
              /\ SearchTerm(s)' = term
              /\ Filtered(s)' =
                     IF term = <<>> THEN Original(s)
                     ELSE SelectSeq(Original(s), LAMBDA u : UsernameContains(u, term))
              /\ Original(s)' = Original(s)
              /\ gist' = gist
              /\ Editing(s)' = None
              /\ PendingDelete(s)' = None]_vars

\* the part of C11 the code keeps: everything but the pending-delete reset
C11_SearchKeepsDataResetsEdit ==
    [][\A s \in SessionIds : \A term \in SearchTerms :
          Search(s, term) =>
              /\ SearchTerm(s)' = term
              /\ Filtered(s)' =
                     IF term = <<>> THEN Original(s)
                     ELSE SelectSeq(Original(s), LAMBDA u : UsernameContains(u, term))
              /\ Original(s)' = Original(s)
              /\ gist' = gist
              /\ Editing(s)' = None]_vars

\* the state of session s a form may change, and the remote document
FormFrame(s) ==
    <<Original(s), Filtered(s), SearchTerm(s), Editing(s), PendingDelete(s), gist>>

\* C12: a rejected form submission changes nothing: AddRecord with an empty
\* username or an empty password, and SaveEdit with an empty username, leave
\* the working copy, the filtered view, the search term, the edit and delete
\* selections and the remote document unchanged, and report a validation error.
C12_RejectedFormChangesNothing ==
    [][\A s \in SessionIds :
          /\ \A u \in UsernameInputs, p \in UserPasswordInputs, m \in MoneyInputs :
                 (AddRecord(s, u, p, m) /\ (u = <<>> \/ p = "")) =>
                     /\ FormFrame(s)' = FormFrame(s)
                     /\ "username_password_empty" \in report'
                     /\ "user_added" \notin report'
          /\ \A p \in EditPasswordInputs, m \in EditMoneyInputs :
                 SaveEdit(s, <<>>, p, m) =>
                     /\ FormFrame(s)' = FormFrame(s)
                     /\ "username_empty" \in report'
                     /\ "user_updated" \notin report']_vars

\* C12 witness: a form was rejected while the session held records, an active
\* search term and both selections
C12_FormRejected ==
    \E s \in SessionIds :
        /\ report \cap {"username_password_empty", "username_empty"} # {}
        /\ Original(s) # <<>>
        /\ SearchTerm(s) # <<>>
        /\ Editing(s) # None
        /\ Truthy(PendingDelete(s))

\* the number the claim gives for the money of a raw record
ExpectedMoney(raw) ==
    IF "money" \notin DOMAIN raw THEN 0
    ELSE IF raw["money"].k \in {"int", "float"} THEN raw["money"].n
    ELSE IF raw["money"].k = "str" /\ raw["money"].s \in DOMAIN NumericText
         THEN NumericText[raw["money"].s]
    ELSE 0

\* C13: after any successful Load every record has a numeric money value (a
\* missing or non-numeric value has become 0.0, a numeric or numeric-text value
\* that number), and every record of a save payload has a numeric money value.
C13_MoneyNumericEverywhere ==
    [][\A s \in SessionIds :
          /\ ((InitialLoad(s, TRUE) \/ Load(s, TRUE)) /\ gist.kind = "list") =>
                 /\ Len(Original(s)') = Len(gist.content)
                 /\ \A i \in 1..Len(gist.content) :
                        /\ "money" \in DOMAIN Original(s)'[i]
                        /\ Original(s)'[i]["money"] = JFloat(ExpectedMoney(gist.content[i]))
          /\ (SaveAll(s, TRUE, TRUE) /\ Original(s) # <<>>) =>
                 \A i \in 1..Len(gist'.content) :
                     /\ "money" \in DOMAIN gist'.content[i]
                     /\ gist'.content[i]["money"].k = "float"]_vars

\* the part of C13 the code keeps: a money value that is present is numeric
\* after a load and in a save payload, with the value the claim gives
C13_PresentMoneyNumeric ==
    [][\A s \in SessionIds :
          /\ ((InitialLoad(s, TRUE) \/ Load(s, TRUE)) /\ gist.kind = "list") =>
                 /\ Len(Original(s)') = Len(gist.content)
                 /\ \A i \in 1..Len(gist.content) :
                        /\ "money" \in DOMAIN Original(s)'[i] <=> "money" \in DOMAIN gist.content[i]
                        /\ "money" \in DOMAIN gist.content[i] =>
                               Original(s)'[i]["money"] = JFloat(ExpectedMoney(gist.content[i]))
          /\ (SaveAll(s, TRUE, TRUE) /\ Original(s) # <<>>) =>
                 \A i \in 1..Len(gist'.content) :
                     "money" \in DOMAIN gist'.content[i] =>
                         gist'.content[i]["money"].k = "float"]_vars

\* normalization applied again to a list the session holds
Renormalized(records, drawn) == CoerceAll(ensure_unique_id(records, drawn).items)

\* C14: for every collection of raw records, with or without a createdAt value
\* (whatever it is) and with or without an identifier, the normalization of a
\* load gives every record a non-empty identifier, and normalizing the loaded
\* collection again changes no identifier and no money value.
C14_NormalizeGivesIdentifiers ==
    [][\A s \in SessionIds :
          ((InitialLoad(s, TRUE) \/ Load(s, TRUE)) /\ gist.kind = "list") =>
              /\ Len(Original(s)') = Len(gist.content)
              /\ \A i \in 1..Len(Original(s)') :
                     /\ "_app_id" \in DOMAIN Original(s)'[i]
                     /\ Original(s)'[i]["_app_id"] # ""
                     /\ Original(s)'[i]["_app_id"] # None
              /\ Renormalized(Original(s)', uuid_drawn') = Original(s)']_vars

\* the part of C14 the code keeps: every loaded record has an identifier key,
\* non-empty unless its createdAt is the empty text, and normalizing again
\* changes nothing
C14_NormalizeIdempotent ==
    [][\A s \in SessionIds :
          ((InitialLoad(s, TRUE) \/ Load(s, TRUE)) /\ gist.kind = "list") =>
              /\ Len(Original(s)') = Len(gist.content)
              /\ \A i \in 1..Len(Original(s)') :
                     /\ "_app_id" \in DOMAIN Original(s)'[i]
                     /\ Original(s)'[i]["_app_id"] = "" =>
                            /\ "createdAt" \in DOMAIN gist.content[i]
                            /\ gist.content[i]["createdAt"] = JStr("")
              /\ Renormalized(Original(s)', uuid_drawn') = Original(s)']_vars

\* C15: an accepted AddRecord(username, password, money) appends exactly one
\* record at the end of the working copy, with the given username, password
\* and money, createdAt equal to lastLogin and the identifier derived from
\* that timestamp; the earlier records keep their values and order; the new
\* record is in the filtered view exactly when there is no active search term
\* or its username matches the term.
C15_AddAppendsOneRecord ==
    [][\A s \in SessionIds :
          \A u \in UsernameInputs, p \in UserPasswordInputs, m \in MoneyInputs :
              (AddRecord(s, u, p, m) /\ u # <<>> /\ p # "") =>
                  /\ Len(Original(s)') = Len(Original(s)) + 1
                  /\ SubSeq(Original(s)', 1, Len(Original(s))) = Original(s)
                  /\ LET added == Original(s)'[Len(Original(s)')]
                     IN /\ added["username"] = u
                        /\ added["password"] = p
                        /\ added["money"] = JFloat(m)
                        /\ added["createdAt"] = added["lastLogin"]
                        /\ added["createdAt"].k = "str"
                        /\ added["_app_id"] = added["createdAt"].s
                        /\ added["_app_id"] # ""
                        /\ (\E i \in 1..Len(Filtered(s)') : Filtered(s)'[i] = added)
                               <=> (SearchTerm(s) = <<>> \/ UsernameContains(added, SearchTerm(s)))
                  /\ "user_added" \in report']_vars

\* C15 witness: a record was added under a search term it does not match: it
\* is the last of the working copy and not in the filtered view
C15_AddedOutsideView ==
    \E s \in SessionIds :
        /\ "user_added" \in report
        /\ SearchTerm(s) # <<>>
        /\ Len(Original(s)) = 2
        /\ Original(s)[2]["username"] = <<"B">>
        /\ Len(Filtered(s)) = 1
        /\ Filtered(s)[1] = Original(s)[1]

\* the values st.session_state holds, object identity of the two lists left out
SessionValues(ss) == [ss EXCEPT !.filtered_is_original = FALSE]

\* the values a manual Load leaves in the session when its fetch fails in transport
FailedLoadOutcome(s) ==
    SessionValues(main_app(load_data_btn(session_state[s],
                                         fetch_gist_data(gist, FALSE, uuid_drawn))).ss)

\* C16: when the named file is absent or its content is empty, Load is a
\* successful load of an empty collection: the working copy and the filtered
\* view become empty, a warning and no transport error is reported, the
\* session is on the main page, and the outcome differs from that of a
\* transport failure: a session that held records is not left as the failed
\* Load would leave it.
C16_AbsentFileIsNotFailure ==
    [][\A s \in SessionIds :
          /\ ((InitialLoad(s, TRUE) \/ Load(s, TRUE)) /\ gist.kind = "absent") =>
                 /\ Original(s)' = <<>>
                 /\ Filtered(s)' = <<>>
                 /\ InMainApp(s)'
                 /\ "file_absent_warning" \in report'
                 /\ "fetch_error" \notin report'
          /\ (Load(s, TRUE) /\ gist.kind = "absent" /\ Original(s) # <<>>) =>
                 SessionValues(session_state'[s]) # FailedLoadOutcome(s)]_vars

\* the part of C16 the code keeps: the absent file loads as an empty
\* collection with a warning, and only the messages tell it from a failure
C16_AbsentFileLoadsEmpty ==
    [][\A s \in SessionIds :
          ((InitialLoad(s, TRUE) \/ Load(s, TRUE)) /\ gist.kind = "absent") =>
              /\ Original(s)' = <<>>
              /\ Filtered(s)' = <<>>
              /\ InMainApp(s)'
              /\ "file_absent_warning" \in report'
              /\ "fetch_error" \notin report']_vars

\* the records of a list as a set
RecordsOf(records) == {records[i] : i \in 1..Len(records)}

\* C17: with two independent sessions, saves are last-write-wins: a confirmed
\* SaveAll of a session that holds records is never refused because of what
\* the remote document holds, and leaves the remote document equal to that
\* session's working copy with identifiers stripped; when the remote document
\* held the other session's saved working copy, none of the other session's
\* records that the saving session lacks remain.
C17_LastWriteWins ==
    [][\A a \in SessionIds : \A b \in SessionIds \ {a} :
          (SaveAll(b, TRUE, TRUE) /\ Original(b) # <<>>) =>
              /\ gist' = GistList(WithoutAppId(Original(b)))
              /\ {"gist_saved", "data_saved"} \subseteq report'
              /\ "failed_to_save" \notin report'
              /\ gist = GistList(WithoutAppId(Original(a))) =>
                     (RecordsOf(gist.content) \ RecordsOf(WithoutAppId(Original(b))))
                         \cap RecordsOf(gist'.content) = {}]_vars

\* C17 witness: both sessions hold the loaded record and a record of their
\* own, and session B's save has just replaced the remote document: it holds
\* B's records and not the record session A added
C17_SecondSaveWon ==
    /\ "gist_saved" \in report
    /\ Len(Original("A")) = 2
    /\ Len(Original("B")) = 2
    /\ Original("A")[1] = Original("B")[1]
    /\ Original("A")[2]["createdAt"] = JStr(Iso(1))
    /\ Original("B")[2]["createdAt"] = JStr(Iso(2))
    /\ gist = GistList(WithoutAppId(Original("B")))
    /\ gist # GistList(WithoutAppId(Original("A")))

\* how many records of a list have the username
WithUsername(records, username) ==
    Cardinality({i \in 1..Len(records) :
                    "username" \in DOMAIN records[i] /\ records[i]["username"] = username})

\* C18: username uniqueness is checked at creation: an AddRecord whose
\* username is that of a record already in the working copy adds no second
\* record with that username.
C18_AddKeepsUsernamesUnique ==
    [][\A s \in SessionIds :
          \A u \in UsernameInputs, p \in UserPasswordInputs, m \in MoneyInputs :
              (AddRecord(s, u, p, m) /\ WithUsername(Original(s), u) > 0) =>
                  WithUsername(Original(s)', u) = WithUsername(Original(s), u)]_vars

\* the positions of the working copy of session s whose record has the identifier
Holders(s, id) == {i \in 1..Len(Original(s)) : AppId(Original(s)[i]) = id}

\* the first of these positions
FirstHolder(s, id) == CHOOSE i \in Holders(s, id) : \A j \in Holders(s, id) : i <= j

\* a list without its i-th element
WithoutIndex(records, i) == SubSeq(records, 1, i - 1) \o SubSeq(records, i + 1, Len(records))

\* the identifier is shared by two or more records of the working copy, of
\* which the filtered view shows one (each button of the view has its own key)
SharedIdentifier(s, id) ==
    /\ Cardinality(Holders(s, id)) >= 2
    /\ Cardinality({i \in 1..Len(Filtered(s)) : AppId(Filtered(s)[i]) = id}) = 1

\* C19: when two or more records of the working copy share an identifier, an
\* accepted SaveEdit changes only the first of them in working-copy order and
\* ConfirmDelete removes only the first of them; the other records with that
\* identifier stay in the working copy unchanged.
C19_FirstMatchOnly ==
    [][\A s \in SessionIds :
          /\ \A u \in EditUsernameInputs \ {<<>>}, p \in EditPasswordInputs, m \in EditMoneyInputs :
                 (SaveEdit(s, u, p, m) /\ Cardinality(Holders(s, Editing(s))) >= 2) =>
                     /\ Len(Original(s)') = Len(Original(s))
                     /\ Original(s)'[FirstHolder(s, Editing(s))]["username"] = u
                     /\ \A j \in 1..Len(Original(s)) :
                            j # FirstHolder(s, Editing(s)) => Original(s)'[j] = Original(s)[j]
          /\ (ConfirmDelete(s) /\ SharedIdentifier(s, PendingDelete(s))) =>
                 Original(s)' = WithoutIndex(Original(s), FirstHolder(s, PendingDelete(s)))]_vars

\* the part of C19 the code keeps: SaveEdit changes the first record with the
\* identifier and no other
C19_EditFirstMatchOnly ==
    [][\A s \in SessionIds :
          \A u \in EditUsernameInputs \ {<<>>}, p \in EditPasswordInputs, m \in EditMoneyInputs :
              (SaveEdit(s, u, p, m) /\ Cardinality(Holders(s, Editing(s))) >= 2) =>
                  /\ Len(Original(s)') = Len(Original(s))
                  /\ Original(s)'[FirstHolder(s, Editing(s))]["username"] = u
                  /\ \A j \in 1..Len(Original(s)) :
                         j # FirstHolder(s, Editing(s)) => Original(s)'[j] = Original(s)[j]]_vars

\* C20: a session overwrites the remote document only from the data-loaded
\* state: where every fetch of the session has failed in transport, no
\* sequence of AddRecord and SaveAll actions replaces the remote document,
\* which holds records, by a working copy that was never populated from it.
C20_NoOverwriteWithoutLoad ==
    [][(gist.kind = "list" /\ gist.content # <<>>) => gist' = gist]_vars

\* C21: the edit and delete sub-states are mutually exclusive: in no reachable
\* session state are an edit selection and a pending-delete selection both set.
C21_EditDeleteExclusive ==
    \A s \in SessionIds : ~(Editing(s) # None /\ Truthy(PendingDelete(s)))
====
